---- MODULE Spec2Model ----
(***************************************************************************)
(* CrystalShardsClient (docs/api/examples/python_client.py): a thin HTTP   *)
(* client.  Text is a sequence of pieces: the digits 4 and 0 are always    *)
(* pieces of their own, every other piece is an opaque run of characters   *)
(* that holds neither, so that Python's  '404' in s  is a search for the   *)
(* three pieces "4","0","4" in a row.  Python and JSON values are  *)
(* records of one shape (ty, s, n, items, elems); JSON is kept flat        *)
(* (objects and arrays of scalars).                                        *)
(***************************************************************************)
EXTENDS Integers, Sequences, FiniteSets, TLC

\* ------------------------------------------------------------------ bounds
MaxTrailing == 2   \* trailing slashes on the base URL given to the constructor
MaxLimit == 2      \* integer arguments range over 0..MaxLimit
MaxOptions == 2    \* extra keyword options passed to search_shards

\* ------------------------------------------------------------ Python values
PyNone == [ty |-> "null", s |-> <<>>, n |-> 0, items |-> <<>>, elems |-> <<>>]
PyStr(t) == [ty |-> "str", s |-> t, n |-> 0, items |-> <<>>, elems |-> <<>>]
PyInt(k) == [ty |-> "int", s |-> <<>>, n |-> k, items |-> <<>>, elems |-> <<>>]
PyBool(b) == [ty |-> "bool", s |-> <<>>, n |-> IF b THEN 1 ELSE 0, items |-> <<>>, elems |-> <<>>]
PyDict(kvs) == [ty |-> "dict", s |-> <<>>, n |-> 0, items |-> kvs, elems |-> <<>>]
PyList(vs) == [ty |-> "list", s |-> <<>>, n |-> 0, items |-> <<>>, elems |-> vs]

\* Python truth value, as `if x:` and `x or y` take it
Truthy(v) ==
  CASE v.ty = "null" -> FALSE
    [] v.ty = "str" -> v.s # <<>>
    [] v.ty = "int" -> v.n # 0
    [] v.ty = "bool" -> v.n = 1
    [] v.ty = "dict" -> v.items # <<>>
    [] v.ty = "list" -> v.elems # <<>>

Digit(d) ==
  CASE d = 0 -> "0" [] d = 1 -> "1" [] d = 2 -> "2" [] d = 3 -> "3" [] d = 4 -> "4"
    [] d = 5 -> "5" [] d = 6 -> "6" [] d = 7 -> "7" [] d = 8 -> "8" [] d = 9 -> "9"

\* str(n) of a non-negative int: its decimal digits
RECURSIVE IntToStr(_)
IntToStr(k) == IF k < 10 THEN <<Digit(k)>> ELSE IntToStr(k \div 10) \o <<Digit(k % 10)>>

\* str(v), as an f-string and urlencode format a scalar
Str(v) ==
  CASE v.ty = "null" -> <<"None">>
    [] v.ty = "str" -> v.s
    [] v.ty = "int" -> IntToStr(v.n)
    [] v.ty = "bool" -> IF v.n = 1 THEN <<"True">> ELSE <<"False">>
    [] v.ty = "dict" -> <<"{..}">>
    [] v.ty = "list" -> <<"[..]">>

\* needle in hay
Contains(hay, needle) ==
  \E i \in 1..(Len(hay) - Len(needle) + 1) : SubSeq(hay, i, i + Len(needle) - 1) = needle

StartsWith(t, p) == Len(t) >= Len(p) /\ SubSeq(t, 1, Len(p)) = p

\* ------------------------------------------------- dict (insertion-ordered)
HasKey(kvs, k) == \E i \in 1..Len(kvs) : kvs[i][1] = k

\* d.get(k): the value, or None
DictGet(kvs, k) ==
  IF HasKey(kvs, k) THEN kvs[CHOOSE i \in 1..Len(kvs) : kvs[i][1] = k][2] ELSE PyNone

\* d[k] = v: replaces in place, or appends
DictSet(kvs, k, v) ==
  IF HasKey(kvs, k)
  THEN [i \in 1..Len(kvs) |-> IF kvs[i][1] = k THEN <<k, v>> ELSE kvs[i]]
  ELSE Append(kvs, <<k, v>>)

\* d.update(other)
RECURSIVE DictUpdate(_, _)
DictUpdate(kvs, other) ==
  IF other = <<>> THEN kvs
  ELSE DictUpdate(DictSet(kvs, other[1][1], other[1][2]), Tail(other))

\* DropNone without the `is not None` filter: every option is forwarded
DropNone_KeepAll(kvs) == kvs

\* {k: v for k, v in options.items() if v is not None}
RECURSIVE DropNone(_)
DropNone(kvs) ==
  IF kvs = <<>> THEN <<>>
  ELSE IF kvs[1][2].ty = "null" THEN DropNone(Tail(kvs))
  ELSE <<kvs[1]>> \o DropNone(Tail(kvs))

\* ------------------------------------------------------- urllib.parse.urlencode
\* quote_plus of one piece: a space becomes "+", a reserved character its escape
QuotePiece(c) ==
  CASE c = " " -> "+"
    [] c = "&" -> "%26"
    [] c = "=" -> "%3D"
    [] c = "+" -> "%2B"
    [] c = "?" -> "%3F"
    [] c = "/" -> "%2F"
    [] OTHER -> c

QuotePlus(t) == [i \in 1..Len(t) |-> QuotePiece(t[i])]

\* urlencode(params): quote_plus(str(k)) = quote_plus(str(v)), joined with &
RECURSIVE urlencode(_)
urlencode(kvs) ==
  IF kvs = <<>> THEN <<>>
  ELSE QuotePlus(kvs[1][1]) \o <<"=">> \o QuotePlus(Str(kvs[1][2]))
       \o (IF Len(kvs) = 1 THEN <<>> ELSE <<"&">> \o urlencode(Tail(kvs)))

\* ----------------------------------------------------------- response.json()
\* A body on the wire is a sequence of tokens: punctuation, scalar literals, or
\* text that is no JSON at all.
Lit(v) == [t |-> "lit", v |-> v]
Tok(c) == [t |-> c, v |-> PyNone]

JsonBad == [ok |-> FALSE, out |-> <<>>]

\* the elements of an array: literal (, literal)*
RECURSIVE ParseElems(_)
ParseElems(ts) ==
  IF Len(ts) = 0 \/ ts[1].t # "lit" THEN JsonBad
  ELSE IF Len(ts) = 1 THEN [ok |-> TRUE, out |-> <<ts[1].v>>]
  ELSE IF ts[2].t # "," THEN JsonBad
  ELSE LET r == ParseElems(SubSeq(ts, 3, Len(ts)))
       IN IF r.ok THEN [ok |-> TRUE, out |-> <<ts[1].v>> \o r.out] ELSE JsonBad

\* the members of an object: string : literal (, string : literal)*
RECURSIVE ParseMembers(_)
ParseMembers(ts) ==
  IF Len(ts) < 3 \/ ts[1].t # "lit" \/ ts[1].v.ty # "str" \/ ts[2].t # ":" \/ ts[3].t # "lit"
  THEN JsonBad
  ELSE IF Len(ts) = 3 THEN [ok |-> TRUE, out |-> << <<ts[1].v.s, ts[3].v>> >>]
  ELSE IF ts[4].t # "," THEN JsonBad
  ELSE LET r == ParseMembers(SubSeq(ts, 5, Len(ts)))
       IN IF r.ok THEN [ok |-> TRUE, out |-> << <<ts[1].v.s, ts[3].v>> >> \o r.out]
          ELSE JsonBad

\* json.loads of the body: [ok, v]; a repeated key keeps its last value
JsonDecode(b) ==
  LET n == Len(b)
      inner == SubSeq(b, 2, n - 1)
  IN IF n = 1 /\ b[1].t = "lit" THEN [ok |-> TRUE, v |-> b[1].v]
     ELSE IF n >= 2 /\ b[1].t = "[" /\ b[n].t = "]"
     THEN IF inner = <<>> THEN [ok |-> TRUE, v |-> PyList(<<>>)]
          ELSE LET r == ParseElems(inner)
               IN [ok |-> r.ok, v |-> IF r.ok THEN PyList(r.out) ELSE PyNone]
     ELSE IF n >= 2 /\ b[1].t = "{" /\ b[n].t = "}"
     THEN IF inner = <<>> THEN [ok |-> TRUE, v |-> PyDict(<<>>)]
          ELSE LET r == ParseMembers(inner)
               IN [ok |-> r.ok, v |-> IF r.ok THEN PyDict(DictUpdate(<<>>, r.out)) ELSE PyNone]
     ELSE [ok |-> FALSE, v |-> PyNone]

\* ------------------------------------------------------------- construction
\* base_url.rstrip('/')
RECURSIVE RStrip(_)
RStrip(t) ==
  IF t # <<>> /\ t[Len(t)] = "/" THEN RStrip(SubSeq(t, 1, Len(t) - 1)) ELSE t

\* session.headers after __init__, as a dict of header name -> text
SessionHeaders(key) ==
  LET defaults == << <<"Content-Type", <<"application/json">> >>,
                     <<"User-Agent", <<"CrystalShardsClient/", "1", ".", "0", ".", "0", " (Python)">> >> >>
  IN IF Truthy(key)
     THEN DictSet(defaults, "Authorization", <<"Bearer ">> \o key.s)
     ELSE defaults

\* headers CrystalShardsAsync._request builds for each request
AsyncHeaders(key) ==
  LET defaults == << <<"Content-Type", <<"application/json">> >>,
                     <<"User-Agent", <<"CrystalShardsClient/", "1", ".", "0", ".", "0", " (Python/Async)">> >> >>
  IN IF Truthy(key)
     THEN DictSet(defaults, "Authorization", <<"Bearer ">> \o key.s)
     ELSE defaults

\* ------------------------------------------------------ outcomes of a call
NoOutcome == [kind |-> "pending", val |-> PyNone, exc |-> "", msg |-> <<>>]
Returns(v) == [kind |-> "return", val |-> v, exc |-> "", msg |-> <<>>]
Raises(cls, text) == [kind |-> "raise", val |-> PyNone, exc |-> cls, msg |-> text]

\* what the transport hands back: a response (status, body) or a failure
NoResp == [got |-> "none", status |-> 0, body |-> <<>>, err |-> ""]
Response(st, b) == [got |-> "response", status |-> st, body |-> b, err |-> ""]
Failure(e) == [got |-> "failure", status |-> 0, body |-> <<>>, err |-> e]

Reason(st) ==
  CASE st = 200 -> "OK"
    [] st = 201 -> "Created"
    [] st = 401 -> "Unauthorized"
    [] st = 404 -> "Not Found"
    [] st = 500 -> "Internal Server Error"
    [] OTHER -> "Unknown"

\* response.raise_for_status() raises HTTPError for 400 <= status < 600
RaisesForStatus(st) == 400 <= st /\ st < 600

\* str(e) of the HTTPError: "<status> Client Error: <reason> for url: <url>"
HTTPErrorStr(url, resp) ==
  IntToStr(resp.status)
    \o <<IF resp.status < 500 THEN " Client Error: " ELSE " Server Error: ",
         Reason(resp.status), " for url: ">>
    \o url

\* str(e) of a RequestException with no response: a refused connection names
\* the URL it could not reach, a read timeout does not
TransportErrStr(url, resp) ==
  IF resp.err = "refused"
  THEN <<"Max retries exceeded with url: ">> \o url \o <<" (Connection refused)">>
  ELSE <<"Read timed out.">>

JsonErrStr == <<"Expecting value: line ", "1", " column ", "1", " (char ", "0", ")">>

TypeName(v) ==
  CASE v.ty = "null" -> "NoneType" [] v.ty = "str" -> "str" [] v.ty = "int" -> "int"
    [] v.ty = "bool" -> "bool" [] v.ty = "list" -> "list" [] OTHER -> "dict"

NoAttrGet(v) == Raises("AttributeError", <<"'", TypeName(v), "' object has no attribute 'get'">>)

\* error_data: {} unless the body decodes
ErrorData(resp) ==
  LET dec == JsonDecode(resp.body) IN IF dec.ok THEN dec.v ELSE PyDict(<<>>)

\* _request, except HTTPError: the message from error / message / str(e)
HTTPErrorOutcome(url, resp) ==
  LET error_data == ErrorData(resp)
      e == DictGet(error_data.items, <<"error">>)
      m == DictGet(error_data.items, <<"message">>)
      error_msg == IF Truthy(e) THEN Str(e)
                   ELSE IF Truthy(m) THEN Str(m)
                   ELSE HTTPErrorStr(url, resp)
  IN IF error_data.ty # "dict" THEN NoAttrGet(error_data)
     ELSE Raises("Exception", <<"API Error ">> \o IntToStr(resp.status) \o <<": ">> \o error_msg)

\* _request, except RequestException
TransportOutcome(url, resp) ==
  Raises("Exception", <<"Request failed: ">> \o TransportErrStr(url, resp))

\* SuccessOutcome returning response.json().get('data') in place of the body
SuccessOutcome_Unwrap(resp, jsonErrCaught) ==
  LET dec == JsonDecode(resp.body)
  IN IF dec.ok THEN Returns(DictGet(dec.v.items, <<"data">>))
     ELSE IF jsonErrCaught THEN Raises("Exception", <<"Request failed: ">> \o JsonErrStr)
     ELSE Raises("JSONDecodeError", JsonErrStr)

\* _request, no HTTPError: return response.json().  A body that does not decode
\* raises JSONDecodeError, which is a RequestException in some versions of the
\* library (caught) and a plain ValueError in others (jsonErrCaught says which).
SuccessOutcome(resp, jsonErrCaught) ==
  LET dec == JsonDecode(resp.body)
  IN IF dec.ok THEN Returns(dec.v)
     ELSE IF jsonErrCaught THEN Raises("Exception", <<"Request failed: ">> \o JsonErrStr)
     ELSE Raises("JSONDecodeError", JsonErrStr)

\* _request after session.request has come back
RequestOutcome(url, resp, jsonErrCaught) ==
  IF resp.got = "failure" THEN TransportOutcome(url, resp)
  ELSE IF RaisesForStatus(resp.status) THEN HTTPErrorOutcome(url, resp)
  ELSE SuccessOutcome(resp, jsonErrCaught)

\* '404' in str(e)
Mentions404(text) == Contains(text, <<"4", "0", "4">>)

\* get_shard: except Exception as e: if '404' in str(e): return None; raise
get_shardOutcome(o) ==
  IF o.kind = "raise" /\ Mentions404(o.msg) THEN Returns(PyNone) ELSE o

\* CrystalShardsAsync._request after session.request has come back
AsyncRequestOutcome(url, resp) ==
  IF resp.got = "failure" THEN Raises("ClientError", TransportErrStr(url, resp))
  ELSE IF resp.status >= 400
  THEN LET error_data == ErrorData(resp)
           e == DictGet(error_data.items, <<"error">>)
           m == DictGet(error_data.items, <<"message">>)
           error_msg == IF Truthy(e) THEN Str(e)
                        ELSE IF Truthy(m) THEN Str(m)
                        ELSE <<"HTTP ">> \o IntToStr(resp.status)
       IN IF error_data.ty # "dict" THEN NoAttrGet(error_data)
          ELSE Raises("Exception",
                      <<"API Error ">> \o IntToStr(resp.status) \o <<": ">> \o error_msg)
  ELSE LET dec == JsonDecode(resp.body)
       IN IF dec.ok THEN Returns(dec.v) ELSE Raises("JSONDecodeError", JsonErrStr)

\* ------------------------------------------------------- building requests
\* search_shards: params = {'q': query}; params.update(non-None options)
SearchParams(query, options) ==
  DictUpdate(<< <<<<"q">>, PyStr(query)>> >>, DropNone(options))

\* a keyword argument, or the default of the signature when it is not passed
Arg(kw, k, default) == IF HasKey(kw, k) THEN DictGet(kw, k) ELSE default

\* KeyMissing as `self.api_key is None`, which lets an empty key through
KeyMissing_IsNone(key) == key.ty = "null"

\* submit_shard: if not self.api_key
KeyMissing(key) == ~Truthy(key)

ApiV1 == <<"/api/v", "1">>

\* -------------------------------------------------------------------- state
VARIABLES
  base_url,   \* self.base_url
  api_key,    \* self.api_key
  headers,    \* self.session.headers
  calls       \* per calling thread: the call it is in, if any

vars == <<base_url, api_key, headers, calls>>

Threads == {"t1", "t2"}

NoReq == [method |-> "", url |-> <<>>, json |-> PyNone, headers |-> <<>>]

Idle == [pc |-> "idle", op |-> "", arg |-> PyNone, kw |-> <<>>, req |-> NoReq,
         resp |-> NoResp, outcome |-> NoOutcome, netcalls |-> 0]

\* --------------------------------------------------------------- the inputs
RECURSIVE Slashes(_)
Slashes(k) == IF k = 0 THEN <<>> ELSE <<"/">> \o Slashes(k - 1)

BaseUrls ==
  {<<"https://api.crystalshards.org">> \o Slashes(k) : k \in 0..MaxTrailing}
    \cup {<<"http://localhost:", "4", "0", "4", "0">>}

ApiKeys == {PyNone, PyStr(<<>>), PyStr(<<"secret">>)}

Queries == {<<"web">>, <<"web", " ", "framework">>}
Names == {<<"kemal">>, <<"lib", "4", "0", "4">>}
GithubUrls == {<<"https://github.com/user/repo">>}

IntArgs == {PyNone} \cup {PyInt(i) : i \in 0..MaxLimit}

\* the keyword arguments of a call: each of `keys` not passed, or passed a value
KwOf(keys) ==
  LET one(k) == {<<>>} \cup {<< <<k, v>> >> : v \in IntArgs}
  IN IF Len(keys) = 1 THEN one(keys[1])
     ELSE {a \o b : a \in one(keys[1]), b \in one(keys[2])}

OptKeys == {<<"q">>, <<"sort_by">>, <<"highlight">>}

\* an option is passed None or a value of its kind
OptVals(key) ==
  {PyNone,
   IF key = <<"q">> THEN PyStr(<<"orm">>)
   ELSE IF key = <<"sort_by">> THEN PyStr(<<"stars", "&", "q", "=", "x">>)
   ELSE PyBool(TRUE)}

\* **options: up to MaxOptions keyword arguments with distinct names, in order
RECURSIVE OptionsUpTo(_)
OptionsUpTo(k) ==
  IF k = 0 THEN {<<>>}
  ELSE LET shorter == OptionsUpTo(k - 1)
       IN shorter \cup
          UNION {{Append(o, <<key, v>>) : o \in {x \in shorter : Len(x) = k - 1},
                                           v \in OptVals(key)} : key \in OptKeys}

Options == {o \in OptionsUpTo(MaxOptions) :
              \A i, j \in 1..Len(o) : i # j => o[i][1] # o[j][1]}

Statuses == {200, 201, 401, 404, 500}

Bodies ==
  { <<>>,
    <<Tok("<html>")>>,
    <<Tok("{"), Tok("}")>>,
    <<Tok("{"), Lit(PyStr(<<"error">>)), Tok(":"), Lit(PyStr(<<"invalid token">>)), Tok("}")>>,
    <<Tok("{"), Lit(PyStr(<<"message">>)), Tok(":"), Lit(PyStr(<<"try later">>)), Tok("}")>>,
    <<Tok("{"), Lit(PyStr(<<"error">>)), Tok(":"), Lit(PyStr(<<>>)), Tok(","),
                Lit(PyStr(<<"message">>)), Tok(":"), Lit(PyStr(<<"try later">>)), Tok("}")>>,
    <<Tok("{"), Lit(PyStr(<<"error">>)), Tok(":"), Lit(PyStr(<<"upstream said ", "4", "0", "4">>)), Tok("}")>>,
    <<Tok("{"), Lit(PyStr(<<"status">>)), Tok(":"), Lit(PyStr(<<"ok">>)), Tok(","),
                Lit(PyStr(<<"timestamp">>)), Tok(":"), Lit(PyStr(<<"T">>)), Tok("}")>>,
    <<Tok("["), Lit(PyStr(<<"kemal">>)), Tok(","), Lit(PyInt(7)), Tok("]")>>,
    <<Lit(PyStr(<<"down">>))>>,
    <<Lit(PyInt(7))>>,
    <<Lit(PyNone)>> }

Responses ==
  {Response(st, b) : st \in Statuses, b \in Bodies} \cup {Failure("refused"), Failure("timeout")}

\* ------------------------------------------------------------------ actions
\* __init__
Init ==
  \E b \in BaseUrls, k \in ApiKeys :
    /\ base_url = RStrip(b)
    /\ api_key = k
    /\ headers = SessionHeaders(k)
    /\ calls = [t \in Threads |-> Idle]

\* Send writing the request's method into the shared session headers
Send_TouchesSession(t, op, arg, kw, method, endpoint, json, hdrs) ==
  /\ calls[t].pc = "idle"
  /\ calls' = [calls EXCEPT ![t] =
       [pc |-> "waiting", op |-> op, arg |-> arg, kw |-> kw,
        req |-> [method |-> method, url |-> base_url \o endpoint, json |-> json,
                 headers |-> hdrs],
        resp |-> NoResp, outcome |-> NoOutcome, netcalls |-> 1]]
  /\ headers' = DictSet(headers, "X-HTTP-Method-Override", <<method>>)
  /\ UNCHANGED <<base_url, api_key>>

\* _request up to session.request(method, url, **kwargs): the call is on the wire
Send(t, op, arg, kw, method, endpoint, json, hdrs) ==
  /\ calls[t].pc = "idle"
  /\ calls' = [calls EXCEPT ![t] =
       [pc |-> "waiting", op |-> op, arg |-> arg, kw |-> kw,
        req |-> [method |-> method, url |-> base_url \o endpoint, json |-> json,
                 headers |-> hdrs],
        resp |-> NoResp, outcome |-> NoOutcome, netcalls |-> 1]]
  /\ UNCHANGED <<base_url, api_key, headers>>

\* a call that ends before any request is made
FailLocally(t, op, arg, kw, text) ==
  /\ calls[t].pc = "idle"
  /\ calls' = [calls EXCEPT ![t] =
       [pc |-> "done", op |-> op, arg |-> arg, kw |-> kw, req |-> NoReq,
        resp |-> NoResp, outcome |-> Raises("Exception", text), netcalls |-> 0]]
  /\ UNCHANGED <<base_url, api_key, headers>>

search_shards(t, query, options) ==
  Send(t, "search_shards", PyStr(query), options, "GET",
       ApiV1 \o <<"/search", "?">> \o urlencode(SearchParams(query, options)),
       PyNone, headers)

get_shard(t, name) ==
  Send(t, "get_shard", PyStr(name), <<>>, "GET", ApiV1 \o <<"/shards/">> \o name,
       PyNone, headers)

submit_shard(t, github_url) ==
  IF KeyMissing(api_key)
  THEN FailLocally(t, "submit_shard", PyStr(github_url), <<>>,
                   <<"API key required for shard submission">>)
  ELSE Send(t, "submit_shard", PyStr(github_url), <<>>, "POST", ApiV1 \o <<"/shards">>,
            PyDict(<< <<<<"github_url">>, PyStr(github_url)>> >>), headers)

get_suggestions(t, query, kw) ==
  LET params == << <<<<"q">>, PyStr(query)>>,
                   <<<<"limit">>, Arg(kw, <<"limit">>, PyInt(10))>> >>
  IN Send(t, "get_suggestions", PyStr(query), kw, "GET",
          ApiV1 \o <<"/search/suggestions", "?">> \o urlencode(params), PyNone, headers)

get_trending_searches(t, kw) ==
  LET params == << <<<<"limit">>, Arg(kw, <<"limit">>, PyInt(20))>> >>
  IN Send(t, "get_trending_searches", PyNone, kw, "GET",
          ApiV1 \o <<"/search/trending", "?">> \o urlencode(params), PyNone, headers)

get_popular_searches(t, kw) ==
  LET params == << <<<<"limit">>, Arg(kw, <<"limit">>, PyInt(20))>> >>
  IN Send(t, "get_popular_searches", PyNone, kw, "GET",
          ApiV1 \o <<"/search/popular", "?">> \o urlencode(params), PyNone, headers)

get_search_analytics(t, kw) ==
  LET params == << <<<<"days">>, Arg(kw, <<"days">>, PyInt(7))>> >>
  IN Send(t, "get_search_analytics", PyNone, kw, "GET",
          ApiV1 \o <<"/search/analytics", "?">> \o urlencode(params), PyNone, headers)

get_search_filters(t) ==
  Send(t, "get_search_filters", PyNone, <<>>, "GET", ApiV1 \o <<"/search/filters">>,
       PyNone, headers)

list_shards(t, kw) ==
  LET params == << <<<<"page">>, Arg(kw, <<"page">>, PyInt(1))>>,
                   <<<<"per_page">>, Arg(kw, <<"per_page">>, PyInt(20))>> >>
  IN Send(t, "list_shards", PyNone, kw, "GET",
          ApiV1 \o <<"/shards", "?">> \o urlencode(params), PyNone, headers)

get_api_info(t) ==
  Send(t, "get_api_info", PyNone, <<>>, "GET", ApiV1, PyNone, headers)

health_check(t) ==
  Send(t, "health_check", PyNone, <<>>, "GET", <<"/health">>, PyNone, headers)

\* CrystalShardsAsync.search_shards; without aiohttp _request fails on import
async_search_shards(t, query, options, installed) ==
  IF installed
  THEN Send(t, "async_search_shards", PyStr(query), options, "GET",
            ApiV1 \o <<"/search", "?">> \o urlencode(SearchParams(query, options)),
            PyNone, AsyncHeaders(api_key))
  ELSE FailLocally(t, "async_search_shards", PyStr(query), options,
                   <<"aiohttp required for async client: pip install aiohttp">>)

\* what the caller of operation `op` gets once the transport has answered
OpOutcome(op, url, resp, jsonErrCaught) ==
  IF op = "async_search_shards" THEN AsyncRequestOutcome(url, resp)
  ELSE IF op = "get_shard" THEN get_shardOutcome(RequestOutcome(url, resp, jsonErrCaught))
  ELSE RequestOutcome(url, resp, jsonErrCaught)

\* session.request comes back with `resp` and the call runs to its end
Completes(t, resp, jsonErrCaught) ==
  /\ calls[t].pc = "waiting"
  /\ calls' = [calls EXCEPT ![t].pc = "done", ![t].resp = resp,
                            ![t].outcome = OpOutcome(calls[t].op, calls[t].req.url,
                                                     resp, jsonErrCaught)]
  /\ UNCHANGED <<base_url, api_key, headers>>

\* the caller takes the outcome and is free to call again
Finish(t) ==
  /\ calls[t].pc = "done"
  /\ calls' = [calls EXCEPT ![t] = Idle]
  /\ UNCHANGED <<base_url, api_key, headers>>

\* one thread using the client, every input
Next ==
  \/ \E q \in Queries, o \in Options : search_shards("t1", q, o)
  \/ \E n \in Names : get_shard("t1", n)
  \/ \E g \in GithubUrls : submit_shard("t1", g)
  \/ \E q \in Queries, kw \in KwOf(<< <<"limit">> >>) : get_suggestions("t1", q, kw)
  \/ \E kw \in KwOf(<< <<"limit">> >>) : get_trending_searches("t1", kw)
  \/ \E kw \in KwOf(<< <<"limit">> >>) : get_popular_searches("t1", kw)
  \/ \E kw \in KwOf(<< <<"days">> >>) : get_search_analytics("t1", kw)
  \/ get_search_filters("t1")
  \/ \E kw \in KwOf(<< <<"page">>, <<"per_page">> >>) : list_shards("t1", kw)
  \/ get_api_info("t1")
  \/ health_check("t1")
  \/ \E q \in Queries, o \in Options, i \in BOOLEAN : async_search_shards("t1", q, o, i)
  \/ \E r \in Responses, c \in BOOLEAN : Completes("t1", r, c)
  \/ Finish("t1")

Spec == Init /\ [][Next]_vars

\* two threads sharing one client, a few inputs each
ConcResponses ==
  {Response(200, <<Tok("{"), Tok("}")>>),
   Response(404, <<Tok("<html>")>>),
   Response(500, <<Tok("{"), Lit(PyStr(<<"error">>)), Tok(":"),
                   Lit(PyStr(<<"invalid token">>)), Tok("}")>>),
   Failure("refused")}

ConcOptions == {o \in Options : Len(o) <= 1 /\ (o # <<>> => o[1][1] = <<"sort_by">>)}

ConcKw(key) == {<<>>, << <<key, PyInt(MaxLimit)>> >>}

ConcNext ==
  \E t \in Threads :
    \/ \E o \in ConcOptions : search_shards(t, <<"web">>, o)
    \/ \E n \in Names : get_shard(t, n)
    \/ \E g \in GithubUrls : submit_shard(t, g)
    \/ \E kw \in ConcKw(<<"limit">>) : get_suggestions(t, <<"web">>, kw)
    \/ \E kw \in ConcKw(<<"limit">>) : get_trending_searches(t, kw)
    \/ \E kw \in ConcKw(<<"limit">>) : get_popular_searches(t, kw)
    \/ \E kw \in ConcKw(<<"days">>) : get_search_analytics(t, kw)
    \/ get_search_filters(t)
    \/ \E kw \in ConcKw(<<"page">>) : list_shards(t, kw)
    \/ get_api_info(t)
    \/ health_check(t)
    \/ \E o \in ConcOptions : \E i \in BOOLEAN : async_search_shards(t, <<"web">>, o, i)
    \/ \E r \in ConcResponses : Completes(t, r, TRUE)
    \/ Finish(t)

ConcSpec == Init /\ [][ConcNext]_vars

\* ================================================================ the claims
SyncOps == {"search_shards", "get_shard", "submit_shard", "get_suggestions",
            "get_trending_searches", "get_popular_searches", "get_search_analytics",
            "get_search_filters", "list_shards", "get_api_info", "health_check"}

Success(st) == 200 <= st /\ st < 300

\* an error that carries status `st`: "API Error <st>: ..."
IsApiError(o, st) ==
  /\ o.kind = "raise"
  /\ o.exc = "Exception"
  /\ StartsWith(o.msg, <<"API Error ">> \o IntToStr(st) \o <<": ">>)

\* a transport-failure error: "Request failed: ...", no status code
IsTransportError(o) ==
  /\ o.kind = "raise"
  /\ o.exc = "Exception"
  /\ StartsWith(o.msg, <<"Request failed: ">>)

\* the query string of a URL as the server splits it: <<key, value>> pairs
FirstIndex(t, c) == CHOOSE i \in 1..Len(t) : t[i] = c /\ \A j \in 1..(i - 1) : t[j] # c
Has(t, c) == \E i \in 1..Len(t) : t[i] = c

RECURSIVE SplitOn(_, _)
SplitOn(t, sep) ==
  IF ~Has(t, sep) THEN <<t>>
  ELSE LET i == FirstIndex(t, sep)
       IN <<SubSeq(t, 1, i - 1)>> \o SplitOn(SubSeq(t, i + 1, Len(t)), sep)

QueryString(url) ==
  IF Has(url, "?") THEN SubSeq(url, FirstIndex(url, "?") + 1, Len(url)) ELSE <<>>

QueryPairs(url) ==
  LET qs == QueryString(url)
      segs == IF qs = <<>> THEN <<>> ELSE SplitOn(qs, "&")
  IN [i \in 1..Len(segs) |->
        IF Has(segs[i], "=")
        THEN <<SubSeq(segs[i], 1, FirstIndex(segs[i], "=") - 1),
               SubSeq(segs[i], FirstIndex(segs[i], "=") + 1, Len(segs[i]))>>
        ELSE <<segs[i], <<>> >>]

CountKey(pairs, k) == Cardinality({i \in 1..Len(pairs) : pairs[i][1] = k})
KeysOf(pairs) == {pairs[i][1] : i \in 1..Len(pairs)}
ValueOf(pairs, k) == pairs[CHOOSE i \in 1..Len(pairs) : pairs[i][1] = k][2]

Requested(c) == c.pc # "idle" /\ c.netcalls = 1

\* C1: get_shard turns a 404 response into None without an error, and every
\* other non-success status into an error carrying that status, whatever the
\* body, the name or the URL contain.
C1_GetShardByStatus ==
  \A t \in Threads :
    LET c == calls[t] IN
    (c.pc = "done" /\ c.op = "get_shard" /\ c.resp.got = "response") =>
      /\ c.resp.status = 404 => c.outcome = Returns(PyNone)
      /\ (~Success(c.resp.status) /\ c.resp.status # 404) => IsApiError(c.outcome, c.resp.status)

\* C2: submit_shard without an API key (None or empty) fails with the
\* authentication-required error and makes no network call; with a key it makes
\* exactly one POST to /api/v1/shards with the JSON body {github_url: <argument>}.
C2_SubmitShardNeedsKey ==
  \A t \in Threads :
    LET c == calls[t] IN
    (c.pc # "idle" /\ c.op = "submit_shard") =>
      IF api_key = PyNone \/ api_key = PyStr(<<>>)
      THEN /\ c.pc = "done"
           /\ c.netcalls = 0
           /\ c.req = NoReq
           /\ c.outcome = Raises("Exception", <<"API key required for shard submission">>)
      ELSE /\ c.netcalls = 1
           /\ c.req.method = "POST"
           /\ c.req.url = base_url \o <<"/api/v", "1", "/shards">>
           /\ c.req.json = PyDict(<< <<<<"github_url">>, c.arg>> >>)

C2_Witness ==
  \E t \in Threads :
    /\ calls[t].pc = "done" /\ calls[t].op = "submit_shard"
    /\ api_key = PyStr(<<>>)
    /\ calls[t].outcome.kind = "raise" /\ calls[t].netcalls = 0

\* C3: when the transport obtains no response, every operation of the client,
\* get_shard included, fails with the transport-failure error (no status code);
\* none returns a result or None.
C3_TransportFailureRaises ==
  \A t \in Threads :
    LET c == calls[t] IN
    (c.pc = "done" /\ c.op \in SyncOps /\ c.resp.got = "failure") => IsTransportError(c.outcome)

\* the body is malformed as an error body: no JSON, or JSON without error and message
Malformed(b) ==
  LET dec == JsonDecode(b)
  IN ~dec.ok \/ (~HasKey(dec.v.items, <<"error">>) /\ ~HasKey(dec.v.items, <<"message">>))

\* C4: on a non-success response with a malformed error body (not JSON, or JSON
\* of any shape without error and message) _request still fails with the API
\* error carrying the status code and a generic status-derived message.
C4_MalformedBodyStillApiError ==
  \A t \in Threads :
    LET c == calls[t] IN
    (/\ c.pc = "done" /\ c.op \in SyncOps \ {"get_shard"}
     /\ c.resp.got = "response" /\ ~Success(c.resp.status) /\ Malformed(c.resp.body)) =>
      /\ IsApiError(c.outcome, c.resp.status)
      /\ c.outcome.msg = <<"API Error ">> \o IntToStr(c.resp.status) \o <<": ">>
                           \o HTTPErrorStr(c.req.url, c.resp)

HealthBody ==
  <<Tok("{"), Lit(PyStr(<<"status">>)), Tok(":"), Lit(PyStr(<<"ok">>)), Tok(","),
              Lit(PyStr(<<"timestamp">>)), Tok(":"), Lit(PyStr(<<"T">>)), Tok("}")>>

\* C5: on a 2xx response with a valid JSON body every operation returns the
\* decoded value of that body, unchanged, and no error; health_check on
\* {status: ok, timestamp: T} returns that mapping.
C5_SuccessReturnsDecodedBody ==
  \A t \in Threads :
    LET c == calls[t] IN
    (/\ c.pc = "done" /\ c.op \in SyncOps
     /\ c.resp.got = "response" /\ Success(c.resp.status) /\ JsonDecode(c.resp.body).ok) =>
      /\ c.outcome.kind = "return"
      /\ c.outcome.val = JsonDecode(c.resp.body).v
      /\ c.resp.body = HealthBody =>
           c.outcome.val = PyDict(<< <<<<"status">>, PyStr(<<"ok">>)>>,
                                     <<<<"timestamp">>, PyStr(<<"T">>)>> >>)

C5_Witness ==
  \E t \in Threads :
    /\ calls[t].pc = "done" /\ calls[t].op = "health_check"
    /\ calls[t].resp = Response(200, HealthBody)
    /\ calls[t].outcome.kind = "return"

\* the message the claim expects: error if present, else message, else generic
ExpectedMessage(c) ==
  LET dec == JsonDecode(c.resp.body)
      kvs == IF dec.ok THEN dec.v.items ELSE <<>>
  IN IF HasKey(kvs, <<"error">>) THEN Str(DictGet(kvs, <<"error">>))
     ELSE IF HasKey(kvs, <<"message">>) THEN Str(DictGet(kvs, <<"message">>))
     ELSE HTTPErrorStr(c.req.url, c.resp)

\* C6: every non-success response, the 404 of get_shard apart, gives the caller
\* an error with the status code and the body's error field, else its message
\* field, else a generic description.
C6_ErrorCarriesStatusAndMessage ==
  \A t \in Threads :
    LET c == calls[t] IN
    (/\ c.pc = "done" /\ c.op \in SyncOps
     /\ c.resp.got = "response" /\ ~Success(c.resp.status)
     /\ ~(c.op = "get_shard" /\ c.resp.status = 404)) =>
      c.outcome = Raises("Exception", <<"API Error ">> \o IntToStr(c.resp.status) \o <<": ">>
                                        \o ExpectedMessage(c))

QueryOps == {"search_shards", "async_search_shards", "get_suggestions",
             "get_trending_searches", "get_popular_searches", "get_search_analytics",
             "list_shards"}

IsSearch(c) == c.op \in {"search_shards", "async_search_shards"}

\* the optional parameters of the call: the extra options of a search, the
\* defaulted parameters of the other operations
OptionalParams(c) ==
  CASE IsSearch(c) -> {c.kw[i][1] : i \in 1..Len(c.kw)} \ {<<"q">>}
    [] c.op = "get_search_analytics" -> {<<"days">>}
    [] c.op = "list_shards" -> {<<"page">>, <<"per_page">>}
    [] OTHER -> {<<"limit">>}

RequiredParams(c) ==
  IF IsSearch(c) \/ c.op = "get_suggestions" THEN {<<"q">>} ELSE {}

UnsetOrNull(c, p) == ~HasKey(c.kw, p) \/ DictGet(c.kw, p).ty = "null"

DefaultOf(c, p) ==
  CASE c.op = "get_suggestions" -> 10
    [] c.op = "get_search_analytics" -> 7
    [] c.op = "list_shards" /\ p = <<"page">> -> 1
    [] OTHER -> 20

NetworkFailed(c) ==
  c.resp.got = "failure" \/ (c.resp.got = "response" /\ ~Success(c.resp.status))

\* C8: every invocation makes at most one network call (exactly one unless it
\* fails before the network) and ends in one outcome, a result or an error,
\* never both; every failure of the network call reaches the caller as an
\* error, except the not-found response of get_shard.
C8_OneCallOneOutcome ==
  \A t \in Threads :
    LET c == calls[t] IN
    /\ c.netcalls <= 1
    /\ c.pc = "waiting" => c.netcalls = 1
    /\ c.pc = "done" =>
         /\ c.outcome.kind \in {"return", "raise"}
         /\ c.outcome.kind = "return" => (c.outcome.exc = "" /\ c.outcome.msg = <<>>)
         /\ c.outcome.kind = "raise" => c.outcome.val = PyNone
         /\ c.netcalls = 0 => (c.outcome.kind = "raise" /\ c.resp = NoResp)
    /\ (/\ c.pc = "done" /\ c.op \in SyncOps /\ NetworkFailed(c)
        /\ ~(c.op = "get_shard" /\ c.resp.got = "response" /\ c.resp.status = 404)) =>
         c.outcome.kind = "raise"

\* C10: search_shards(query, **options) goes to /api/v1/search with q exactly
\* once and equal to the query argument, whatever the options, and forwards
\* every option with a non-null value under its own key.
C10_SearchSendsQuery ==
  \A t \in Threads :
    LET c == calls[t]
        pairs == QueryPairs(c.req.url)
    IN (Requested(c) /\ IsSearch(c)) =>
         /\ StartsWith(c.req.url, base_url \o <<"/api/v", "1", "/search", "?">>)
         /\ CountKey(pairs, <<"q">>) = 1
         /\ ValueOf(pairs, <<"q">>) = QuotePlus(c.arg.s)
         /\ \A i \in 1..Len(c.kw) :
              c.kw[i][2] # PyNone =>
                /\ HasKey(pairs, c.kw[i][1])
                /\ c.kw[i][1] # <<"q">> => ValueOf(pairs, c.kw[i][1]) = QuotePlus(Str(c.kw[i][2]))

\* the configuration is what __init__ leaves: no trailing slash on the base
\* URL, the default headers, Authorization: Bearer <key> exactly with a key
ConfigAsConstructed ==
  /\ base_url = <<>> \/ base_url[Len(base_url)] # "/"
  /\ DictGet(headers, "Content-Type") = <<"application/json">>
  /\ HasKey(headers, "User-Agent")
  /\ HasKey(headers, "Authorization") <=> (api_key.ty = "str" /\ api_key.s # <<>>)
  /\ HasKey(headers, "Authorization") => DictGet(headers, "Authorization") = <<"Bearer ">> \o api_key.s
  /\ Len(headers) = IF HasKey(headers, "Authorization") THEN 3 ELSE 2

\* calls do not interfere: a request is made from the configuration alone, and
\* two calls of the same operation with the same arguments make the same
\* request and, on the same answer, end the same way
CallsIndependent ==
  /\ \A t \in Threads :
       (Requested(calls[t]) /\ calls[t].op \in SyncOps) =>
         /\ StartsWith(calls[t].req.url, base_url)
         /\ calls[t].req.headers = headers
  /\ \A t, u \in Threads :
       (/\ Requested(calls[t]) /\ Requested(calls[u])
        /\ calls[t].op = calls[u].op /\ calls[t].arg = calls[u].arg /\ calls[t].kw = calls[u].kw) =>
         /\ calls[t].req = calls[u].req
         /\ (calls[t].pc = "done" /\ calls[u].pc = "done" /\ calls[t].resp = calls[u].resp) =>
              calls[t].outcome = calls[u].outcome

\* C9: no operation, successful or failing, changes the configuration left by
\* the constructor, so in every interleaving of concurrent calls each call's
\* URL, headers and outcome are those it would have alone.
C9_ConfigReadOnly ==
  /\ [](ConfigAsConstructed /\ CallsIndependent)
  /\ [][base_url' = base_url /\ api_key' = api_key /\ headers' = headers]_vars

C9_Witness ==
  /\ calls["t1"].pc = "done" /\ calls["t1"].op = "submit_shard"
  /\ calls["t1"].outcome.kind = "raise" /\ calls["t1"].netcalls = 1
  /\ calls["t2"].pc = "waiting" /\ calls["t2"].op = "submit_shard"
  /\ HasKey(headers, "Authorization")

====
